---- MODULE Spec2Model ----
(***************************************************************************)
(* Model of the two programs of the repository:                            *)
(*                                                                         *)
(*   nearestneighbor.py  NearestDistanceNoRoadCrossing: for every building *)
(*                       the nearest other building within the search      *)
(*                       radius whose shortest connecting line crosses no  *)
(*                       road (processAlgorithm, crosses_road);            *)
(*   decision_tree.py    process_gpkg / classify_land_use: the required    *)
(*                       column check and the decision tree.               *)
(*                                                                         *)
(* Geometry is exact integer geometry.  Coordinates are whole numbers of   *)
(* grid steps, one grid step being half of crosses_road's epsilon, so the  *)
(* tolerance test is decided on both sides of its threshold.  Buildings    *)
(* are axis-parallel rectangles, roads are polylines.  A distance is       *)
(* carried as its square (distanceSq), which keeps every comparison of the *)
(* code exact: for non-negative a, b:  a > b  iff  a*a > b*b.              *)
(***************************************************************************)
EXTENDS Integers, Sequences, FiniteSets, TLC

VARIABLES
    buildings_layer,   \* sequence of building geometries; feature id = position
    roads_layer,       \* sequence of road geometries (polylines); id = position
    search_radius,     \* SEARCH_RADIUS parameter, in grid steps
    tie,               \* which of several tying closest pairs shortestLine yields
    binding,           \* what asPoint() does on a multi-point geometry
    canceled,          \* feedback.isCanceled()
    pc,                \* position inside processAlgorithm
    current,           \* number of source features the for loop has consumed
    candidate_ids,     \* candidate_ids the inner loop has not visited yet
    min_distance,      \* squared; inf when nothing was accepted yet
    nearest_id,        \* None or <<id>>
    sink,              \* features added to the output sink, in order
    result,            \* value returned by processAlgorithm (None before)
    first_run,         \* the preceding run on the same layers (None if none)
    line_geom,         \* crosses_road called on its own: the line
    verdict,           \* crosses_road called on its own: the outcome
    columns,           \* decision_tree: column names of the loaded table
    row,               \* decision_tree: the row handed to classify_land_use
    prediction,        \* decision_tree: what apply() got for the row
    tpc                \* decision_tree: position inside process_gpkg

vars == <<buildings_layer, roads_layer, search_radius, tie, binding, canceled,
          pc, current, candidate_ids, min_distance, nearest_id, sink, result,
          first_run, line_geom, verdict, columns, row, prediction, tpc>>

crossvars == <<line_geom, verdict>>

treevars == <<columns, row, prediction, tpc>>

-----------------------------------------------------------------------------
(* Bounds and input families                                               *)

MaxBuildings == 3

MaxRoads == 2

Rect(x0, y0, x1, y1) == [xmin |-> x0, ymin |-> y0, xmax |-> x1, ymax |-> y1]

\* Three buildings in a row: gaps 4 (first-second), 2 (second-third),
\* 7 (first-third).
BuildingShapes == { Rect(0, 0, 1, 2), Rect(5, 0, 6, 2), Rect(8, 0, 9, 2) }

\* Roads, as vertex lists.
RoadMid   == << <<3, -1>>, <<3, 3>> >>          \* between 1st and 2nd building
RoadNear  == << <<2, -1>>, <<2, 3>> >>          \* one grid step off the 1st
RoadEdge  == << <<5, -1>>, <<5, 3>> >>          \* along the 2nd building's side
RoadAlong == << <<2, 0>>, <<4, 0>> >>           \* on the low connecting line
RoadVee   == << <<6, -1>>, <<7, 3>>, <<8, -1>> >>   \* bends between 2nd and 3rd
RoadHook  == << <<2, 0>>, <<3, 0>>, <<3, 1>>, <<4, 0>> >>  \* overlap, then a touch

RoadShapes == { RoadMid, RoadNear, RoadEdge, RoadAlong, RoadVee, RoadHook }

\* SEARCH_RADIUS values offered: one below the declared minimum, one that
\* reaches the neighbouring building only, one that reaches every building.
Radii == { -1, 4, 7 }

SeqsUpTo(S, n) == UNION { [1..k -> S] : k \in 0..n }

\* Building layers: up to MaxBuildings features; two features may have the
\* same footprint.
BuildingLayers == SeqsUpTo(BuildingShapes, MaxBuildings)

\* Road layers handed to crosses_road on its own: up to MaxRoads different
\* roads, in every order.
RoadLayers ==
    { r \in SeqsUpTo(RoadShapes, MaxRoads) :
        \A i, j \in DOMAIN r : r[i] = r[j] => i = j }

\* Road layers of a whole run: no road, or one of the three roads that
\* stand between buildings.
SearchRoadLayers == { <<>>, <<RoadMid>>, <<RoadEdge>>, <<RoadVee>> }

\* Lines handed to crosses_road on its own: between any two of these points
\* (the ends of the buildings' connecting lines), zero-length lines included.
LineEnds == { <<x, y>> : x \in {1, 5, 6, 8}, y \in {0, 2} }

Lines == { <<p, q>> : p \in LineEnds, q \in LineEnds }

-----------------------------------------------------------------------------
(* Arithmetic helpers                                                      *)

Abs(n) == IF n < 0 THEN -n ELSE n

Min2(a, b) == IF a <= b THEN a ELSE b

Max2(a, b) == IF a >= b THEN a ELSE b

SetMin(S) == CHOOSE m \in S : \A n \in S : m <= n

SetMax(S) == CHOOSE m \in S : \A n \in S : m >= n

Sub(p, q) == <<p[1] - q[1], p[2] - q[2]>>

Cross(u, v) == u[1] * v[2] - u[2] * v[1]

Dot(u, v) == u[1] * v[1] + u[2] * v[2]

\* Rationals <<numerator, denominator>> with a positive denominator.
RatEq(a, b) == a[1] * b[2] = b[1] * a[2]

RatLe(a, b) == a[1] * b[2] <= b[1] * a[2]

None == <<>>

-----------------------------------------------------------------------------
(* Geometry kernel: what the QgsGeometry / QgsRectangle calls compute      *)

\* geometry.boundingBox() of a building (a rectangle is its own box)
boundingBox(geom) == geom

\* QgsRectangle.buffered(width)
buffered(box, width) ==
    [xmin |-> box.xmin - width, ymin |-> box.ymin - width,
     xmax |-> box.xmax + width, ymax |-> box.ymax + width]

\* QgsRectangle.intersects, the test QgsSpatialIndex.intersects applies
BoxIntersects(a, b) ==
    /\ a.xmin <= b.xmax /\ b.xmin <= a.xmax
    /\ a.ymin <= b.ymax /\ b.ymin <= a.ymax

\* distance between two intervals of one axis
Gap(alo, ahi, blo, bhi) ==
    IF ahi < blo THEN blo - ahi ELSE IF bhi < alo THEN alo - bhi ELSE 0

\* source_geom.distance(target_geom), squared
distanceSq(g1, g2) ==
    LET dx == Gap(g1.xmin, g1.xmax, g2.xmin, g2.xmax)
        dy == Gap(g1.ymin, g1.ymax, g2.ymin, g2.ymax)
    IN  dx * dx + dy * dy

\* One axis of the closest pair: <<coordinate on g1, coordinate on g2>>.
\* Where the two intervals overlap every common coordinate ties; the
\* library takes one end of the common part, always the same one.
AxisPair(alo, ahi, blo, bhi, t) ==
    IF ahi < blo THEN <<ahi, blo>>
    ELSE IF bhi < alo THEN <<alo, bhi>>
    ELSE LET lo == Max2(alo, blo)
             hi == Min2(ahi, bhi)
             v  == IF t = "low" THEN lo ELSE hi
         IN  <<v, v>>

\* geom1.shortestLine(geom2): <<point on geom1, point on geom2>>
shortestLine(g1, g2, t) ==
    LET ax == AxisPair(g1.xmin, g1.xmax, g2.xmin, g2.xmax, t)
        ay == AxisPair(g1.ymin, g1.ymax, g2.ymin, g2.ymax, t)
    IN  << <<ax[1], ay[1]>>, <<ax[2], ay[2]>> >>

\* create_shortest_line
create_shortest_line(geom1, geom2, t) == shortestLine(geom1, geom2, t)

\* line_geom.boundingBox()
LineBox(line) ==
    [xmin |-> Min2(line[1][1], line[2][1]), ymin |-> Min2(line[1][2], line[2][2]),
     xmax |-> Max2(line[1][1], line[2][1]), ymax |-> Max2(line[1][2], line[2][2])]

\* bounding box of a road
RoadBox(road) ==
    [xmin |-> SetMin({road[k][1] : k \in DOMAIN road}),
     ymin |-> SetMin({road[k][2] : k \in DOMAIN road}),
     xmax |-> SetMax({road[k][1] : k \in DOMAIN road}),
     ymax |-> SetMax({road[k][2] : k \in DOMAIN road})]

\* The part of the line P-Q on the road edge A-B, by the parameter t of
\* P + t*(Q - P), 0 <= t <= 1, as rationals: nothing, one point, a stretch.
EdgeHit(line, A, B) ==
    LET P  == line[1]
        Q  == line[2]
        d  == Sub(Q, P)
        e  == Sub(B, A)
        ap == Sub(A, P)
        nohit == [kind |-> "none", lo |-> <<0, 1>>, hi |-> <<0, 1>>]
    IN  IF P = Q
        THEN \* zero-length line: the point P, on the edge or not
             IF Cross(ap, e) = 0 /\ Dot(Sub(P, A), Sub(P, B)) <= 0
             THEN [kind |-> "point", lo |-> <<0, 1>>, hi |-> <<0, 1>>]
             ELSE nohit
        ELSE IF Cross(d, e) # 0
        THEN LET s   == IF Cross(d, e) < 0 THEN -1 ELSE 1
                 den == s * Cross(d, e)
                 tn  == s * Cross(ap, e)
                 un  == s * Cross(ap, d)
             IN  IF 0 <= tn /\ tn <= den /\ 0 <= un /\ un <= den
                 THEN [kind |-> "point", lo |-> <<tn, den>>, hi |-> <<tn, den>>]
                 ELSE nohit
        ELSE IF Cross(ap, d) # 0
        THEN nohit                       \* parallel, apart
        ELSE LET dd == Dot(d, d)         \* on one straight line
                 ta == Dot(ap, d)
                 tb == Dot(Sub(B, P), d)
                 lo == Max2(Min2(ta, tb), 0)
                 hi == Min2(Max2(ta, tb), dd)
             IN  IF lo > hi THEN nohit
                 ELSE IF lo = hi
                 THEN [kind |-> "point", lo |-> <<lo, dd>>, hi |-> <<lo, dd>>]
                 ELSE [kind |-> "line", lo |-> <<lo, dd>>, hi |-> <<hi, dd>>]

\* The parts of the line on the edges of the road
Hits(line, road) ==
    { EdgeHit(line, road[k], road[k + 1]) : k \in 1..(Len(road) - 1) }

Stretches(hits) == { h \in hits : h.kind = "line" }

\* the points that lie on no stretch
Isolated(hits, stretches) ==
    { p \in { h.lo : h \in { g \in hits : g.kind = "point" } } :
        \A h \in stretches : ~(RatLe(h.lo, p) /\ RatLe(p, h.hi)) }

\* The geometry the parts make up, as the library types it:
\*   "Empty"; "Point" (one point, at parameter t); "MultiPoint" (several
\*   separate points); "Line" (stretches only); "Collection" (stretches and
\*   separate points: a geometry collection).
Shape(stretches, isolated) ==
    IF stretches = {} /\ isolated = {}
    THEN [shape |-> "Empty", t |-> <<0, 1>>]
    ELSE IF stretches = {}
    THEN IF \A p, q \in isolated : RatEq(p, q)
         THEN [shape |-> "Point", t |-> CHOOSE p \in isolated : TRUE]
         ELSE [shape |-> "MultiPoint", t |-> <<0, 1>>]
    ELSE IF isolated = {}
    THEN [shape |-> "Line", t |-> <<0, 1>>]
    ELSE [shape |-> "Collection", t |-> <<0, 1>>]

ShapeOfHits(hits) == Shape(Stretches(hits), Isolated(hits, Stretches(hits)))

\* line_geom.intersection(road_geom)
intersection(line, road) == ShapeOfHits(Hits(line, road))

\* line_geom.intersects(road_geom): the two geometries share a point
intersects(inter) == inter.shape # "Empty"

\* intersection.type(): QgsWkbTypes.geometryType of the result's WKB type
GeometryType(shape) ==
    CASE shape \in {"Point", "MultiPoint"} -> "PointGeometry"
      [] shape = "Line"                     -> "LineGeometry"
      [] OTHER                              -> "UnknownGeometry"

-----------------------------------------------------------------------------
(* crosses_road                                                            *)

\* epsilon = 0.0001 = 1 / EpsilonInv map units
EpsilonInv == 10000

\* grid steps per map unit: one step is epsilon / 2
GridInv == 2 * EpsilonInv

\* float('inf'): above every distance two buildings of the model can have
inf == 1 + SetMax({ distanceSq(a, b) : a, b \in BuildingShapes })

\* The point of the line at parameter t = <<tn, den>>, as <<xn, yn, den>>:
\* the point (xn / den, yn / den).
PointAt(line, t) ==
    LET d == Sub(line[2], line[1])
    IN  <<line[1][1] * t[2] + t[1] * d[1], line[1][2] * t[2] + t[1] * d[2], t[2]>>

\* intersection.asPoint().  On a multi-point geometry the call either
\* raises TypeError or yields the point (0, 0), depending on the binding.
asPoint(line, inter) ==
    IF inter.shape = "Point" THEN PointAt(line, inter.t) ELSE <<0, 0, 1>>

\* abs(int_point.x() - pt.x()) < epsilon and abs(int_point.y() - pt.y()) < epsilon
WithinEpsilon(int_point, pt) ==
    /\ Abs(int_point[1] - pt[1] * int_point[3]) * EpsilonInv < int_point[3] * GridInv
    /\ Abs(int_point[2] - pt[2] * int_point[3]) * EpsilonInv < int_point[3] * GridInv

\* is_endpoint = any(... for pt in line_points), line_points the two ends
is_endpoint(int_point, line) ==
    \E pt \in { line[1], line[2] } : WithinEpsilon(int_point, pt)

\* The body of the for loop of crosses_road for one road, inter being the
\* intersection of the line and the road:
\*   "cross"      return True
\*   "pass"       go on with the next road
\*   "TypeError"  asPoint() raised
Verdict(line, inter, b) ==
    IF ~intersects(inter) THEN "pass"
    ELSE IF GeometryType(inter.shape) = "LineGeometry" THEN "cross"
    ELSE IF GeometryType(inter.shape) = "PointGeometry"
    THEN IF inter.shape = "MultiPoint" /\ b = "raise" THEN "TypeError"
         ELSE IF ~is_endpoint(asPoint(line, inter), line) THEN "cross"
         ELSE "pass"
    ELSE "pass"

road_verdict(line, road, b) == Verdict(line, intersection(line, road), b)

\* road_index.intersects(line_bbox): ids of the roads whose box meets the
\* box, here in layer order (roads_layer ranges over every order)
RECURSIVE RoadQueryFrom(_, _, _)
RoadQueryFrom(roads, box, k) ==
    IF k > Len(roads) THEN <<>>
    ELSE (IF BoxIntersects(RoadBox(roads[k]), box) THEN <<k>> ELSE <<>>)
         \o RoadQueryFrom(roads, box, k + 1)

candidate_road_ids(line, roads) == RoadQueryFrom(roads, LineBox(line), 1)

\* what the loop does after one road's verdict v, rest being the outcome of
\* the roads that follow
After(v, rest) ==
    IF v = "cross" THEN "True" ELSE IF v = "TypeError" THEN "TypeError" ELSE rest

RECURSIVE CrossesFrom(_, _, _, _)
CrossesFrom(line, roads, ids, b) ==
    IF ids = <<>> THEN "False"
    ELSE After(road_verdict(line, roads[Head(ids)], b),
               CrossesFrom(line, roads, Tail(ids), b))

\* crosses_road(line_geom, road_index, road_features): "True", "False", or
\* "TypeError" when the call does not return
crosses_road(line, roads, b) ==
    CrossesFrom(line, roads, candidate_road_ids(line, roads), b)

-----------------------------------------------------------------------------
(* processAlgorithm                                                        *)

\* minValue of the SEARCH_RADIUS parameter
SearchRadiusMin == 0

\* the "none found" value of nearest_id and nearest_dist
NoneFound == -1

\* return {self.OUTPUT: dest_id}
ReturnValue == [OUTPUT |-> "dest_id"]

SourceId == current + 1

\* candidate_query with the source's box not buffered by the search radius
candidate_query_unbuffered(source_geom) ==
    { c \in 1..Len(buildings_layer) :
        BoxIntersects(boundingBox(buildings_layer[c]), boundingBox(source_geom)) }

\* building_index.intersects(source_bbox_buffered)
candidate_query(source_geom) ==
    { c \in 1..Len(buildings_layer) :
        BoxIntersects(boundingBox(buildings_layer[c]),
                      buffered(boundingBox(source_geom), search_radius)) }

\* distance > search_radius, for the squared distance
Beyond(distance, radius) == radius < 0 \/ distance > radius * radius

\* accept without the road test: the candidate is taken whatever
\* crosses_road answered
accept_any_line(candidate_id, distance, crosses) ==
    IF candidate_id = SourceId
    THEN [min_distance |-> min_distance, nearest_id |-> nearest_id, raised |-> FALSE]
    ELSE IF Beyond(distance, search_radius) \/ distance >= min_distance
    THEN [min_distance |-> min_distance, nearest_id |-> nearest_id, raised |-> FALSE]
    ELSE IF crosses = "TypeError"
    THEN [min_distance |-> min_distance, nearest_id |-> nearest_id, raised |-> TRUE]
    ELSE [min_distance |-> distance, nearest_id |-> <<candidate_id>>, raised |-> FALSE]

\* One pass of the inner loop for candidate_id, distance being its distance
\* from the source and crosses the outcome of crosses_road on the line
\* between the two: the new min_distance and nearest_id, and whether
\* crosses_road raised (it is called only when the candidate is not skipped).
accept(candidate_id, distance, crosses) ==
    IF candidate_id = SourceId
    THEN [min_distance |-> min_distance, nearest_id |-> nearest_id, raised |-> FALSE]
    ELSE IF Beyond(distance, search_radius) \/ distance >= min_distance
    THEN [min_distance |-> min_distance, nearest_id |-> nearest_id, raised |-> FALSE]
    ELSE IF crosses = "TypeError"
    THEN [min_distance |-> min_distance, nearest_id |-> nearest_id, raised |-> TRUE]
    ELSE IF crosses = "False"
    THEN [min_distance |-> distance, nearest_id |-> <<candidate_id>>, raised |-> FALSE]
    ELSE [min_distance |-> min_distance, nearest_id |-> nearest_id, raised |-> FALSE]

\* crosses_road on the shortest line between two buildings, tabulated over
\* the shapes, road layers, tie-breaks and bindings of the search
crosses_table ==
    [g1 \in BuildingShapes, g2 \in BuildingShapes, roads \in SearchRoadLayers,
     t \in {"low", "high"}, b \in {"raise", "origin"} |->
        crosses_road(create_shortest_line(g1, g2, t), roads, b)]

\* crosses_road on the line between two buildings of the layer
crosses(source_id, candidate_id) ==
    crosses_table[buildings_layer[source_id], buildings_layer[candidate_id],
                  roads_layer, tie, binding]

visit(candidate_id) ==
    accept(candidate_id,
           distanceSq(buildings_layer[SourceId], buildings_layer[candidate_id]),
           crosses(SourceId, candidate_id))

\* The output feature built from the loop's result
out_feature ==
    [id           |-> SourceId,
     geometry     |-> buildings_layer[SourceId],
     nearest_id   |-> IF nearest_id # None THEN nearest_id[1] ELSE NoneFound,
     nearest_dist |-> IF min_distance # inf THEN min_distance ELSE NoneFound]

CrossIdle ==
    /\ line_geom = None
    /\ verdict = "None"

TreeIdle ==
    /\ columns = {}
    /\ row = <<>>
    /\ prediction = "None"
    /\ tpc = "idle"

Init ==
    /\ buildings_layer \in BuildingLayers
    /\ roads_layer \in SearchRoadLayers
    /\ search_radius \in Radii
    /\ tie \in {"low", "high"}
    /\ binding \in {"raise", "origin"}
    /\ canceled = FALSE
    /\ pc = "start"
    /\ current = 0
    /\ candidate_ids = {}
    /\ min_distance = inf
    /\ nearest_id = None
    /\ sink = <<>>
    /\ result = None
    /\ first_run = None
    /\ CrossIdle
    /\ TreeIdle

\* The host refuses a SEARCH_RADIUS below the declared minimum; the
\* algorithm is not run.
RejectParameters ==
    /\ pc = "start"
    /\ search_radius < SearchRadiusMin
    /\ pc' = "rejected"
    /\ UNCHANGED <<buildings_layer, roads_layer, search_radius, tie, binding,
                   canceled, current, candidate_ids, min_distance, nearest_id,
                   sink, result, first_run>>
    /\ UNCHANGED crossvars
    /\ UNCHANGED treevars

\* Setup without the declared minimum of SEARCH_RADIUS
SetupUnchecked ==
    /\ pc = "start"
    /\ pc' = "loop"
    /\ current' = 0
    /\ sink' = <<>>
    /\ UNCHANGED <<buildings_layer, roads_layer, search_radius, tie, binding,
                   canceled, candidate_ids, min_distance, nearest_id,
                   result, first_run>>
    /\ UNCHANGED crossvars
    /\ UNCHANGED treevars

\* processAlgorithm up to the for loop: parameters, sink, the two indexes
Setup ==
    /\ pc = "start"
    /\ search_radius >= SearchRadiusMin
    /\ pc' = "loop"
    /\ current' = 0
    /\ sink' = <<>>
    /\ UNCHANGED <<buildings_layer, roads_layer, search_radius, tie, binding,
                   canceled, candidate_ids, min_distance, nearest_id,
                   result, first_run>>
    /\ UNCHANGED crossvars
    /\ UNCHANGED treevars

\* the user cancels: feedback.isCanceled() turns true
Cancel ==
    /\ pc \in {"start", "loop", "scan"}
    /\ ~canceled
    /\ canceled' = TRUE
    /\ UNCHANGED <<buildings_layer, roads_layer, search_radius, tie, binding,
                   pc, current, candidate_ids, min_distance, nearest_id,
                   sink, result, first_run>>
    /\ UNCHANGED crossvars
    /\ UNCHANGED treevars

\* head of the for loop, next source feature, not cancelled
BeginFeature ==
    /\ pc = "loop"
    /\ current < Len(buildings_layer)
    /\ ~canceled
    /\ candidate_ids' = candidate_query(buildings_layer[SourceId])
    /\ min_distance' = inf
    /\ nearest_id' = None
    /\ pc' = "scan"
    /\ UNCHANGED <<buildings_layer, roads_layer, search_radius, tie, binding,
                   canceled, current, sink, result, first_run>>
    /\ UNCHANGED crossvars
    /\ UNCHANGED treevars

\* if feedback.isCanceled(): break; then the return
BreakOnCancel ==
    /\ pc = "loop"
    /\ current < Len(buildings_layer)
    /\ canceled
    /\ pc' = "returned"
    /\ result' = ReturnValue
    /\ UNCHANGED <<buildings_layer, roads_layer, search_radius, tie, binding,
                   canceled, current, candidate_ids, min_distance, nearest_id,
                   sink, first_run>>
    /\ UNCHANGED crossvars
    /\ UNCHANGED treevars

\* the source features are exhausted; the return
LoopExhausted ==
    /\ pc = "loop"
    /\ current = Len(buildings_layer)
    /\ pc' = "returned"
    /\ result' = ReturnValue
    /\ UNCHANGED <<buildings_layer, roads_layer, search_radius, tie, binding,
                   canceled, current, candidate_ids, min_distance, nearest_id,
                   sink, first_run>>
    /\ UNCHANGED crossvars
    /\ UNCHANGED treevars

Visited(v) ==
    /\ min_distance' = v.min_distance
    /\ nearest_id' = v.nearest_id
    /\ pc' = IF v.raised THEN "error" ELSE "scan"

\* one candidate of the inner loop, in whatever order the index gives them
ScanCandidate ==
    /\ pc = "scan"
    /\ \E candidate_id \in candidate_ids :
          /\ candidate_ids' = candidate_ids \ {candidate_id}
          /\ Visited(visit(candidate_id))
    /\ UNCHANGED <<buildings_layer, roads_layer, search_radius, tie, binding,
                   canceled, current, sink, result, first_run>>
    /\ UNCHANGED crossvars
    /\ UNCHANGED treevars

\* Emit with the cancellation flag looked at inside the inner loop: a
\* cancelled run emits the feature in progress at once
EmitOnCancel ==
    /\ pc = "scan"
    /\ (candidate_ids = {} \/ canceled)
    /\ sink' = Append(sink, out_feature)
    /\ current' = current + 1
    /\ pc' = "loop"
    /\ UNCHANGED <<buildings_layer, roads_layer, search_radius, tie, binding,
                   canceled, candidate_ids, min_distance, nearest_id,
                   result, first_run>>
    /\ UNCHANGED crossvars
    /\ UNCHANGED treevars

\* after the inner loop: build the output feature, sink.addFeature
Emit ==
    /\ pc = "scan"
    /\ candidate_ids = {}
    /\ sink' = Append(sink, out_feature)
    /\ current' = current + 1
    /\ pc' = "loop"
    /\ UNCHANGED <<buildings_layer, roads_layer, search_radius, tie, binding,
                   canceled, candidate_ids, min_distance, nearest_id,
                   result, first_run>>
    /\ UNCHANGED crossvars
    /\ UNCHANGED treevars

Next ==
    \/ RejectParameters
    \/ Setup
    \/ Cancel
    \/ BeginFeature
    \/ BreakOnCancel
    \/ LoopExhausted
    \/ ScanCandidate
    \/ Emit

Spec == Init /\ [][Next]_vars

-----------------------------------------------------------------------------
(* A second run on the same layers                                         *)

\* The user runs the algorithm again on the same two layers, with a search
\* radius at least as large, after a run that went through every building.
Rerun ==
    /\ pc = "returned"
    /\ first_run = None
    /\ ~canceled
    /\ Len(sink) = Len(buildings_layer)
    /\ \E r \in Radii :
          /\ r >= search_radius
          /\ search_radius' = r
    /\ first_run' = << [search_radius |-> search_radius, sink |-> sink] >>
    /\ pc' = "start"
    /\ current' = 0
    /\ candidate_ids' = {}
    /\ min_distance' = inf
    /\ nearest_id' = None
    /\ sink' = <<>>
    /\ result' = None
    /\ UNCHANGED <<buildings_layer, roads_layer, tie, binding, canceled>>
    /\ UNCHANGED crossvars
    /\ UNCHANGED treevars

NextRerun ==
    \/ Next
    \/ Rerun

SpecRerun == Init /\ [][NextRerun]_vars

-----------------------------------------------------------------------------
(* crosses_road on its own                                                 *)

SearchIdle ==
    /\ buildings_layer = <<>>
    /\ search_radius = 0
    /\ tie = "low"
    /\ canceled = FALSE
    /\ pc = "idle"
    /\ current = 0
    /\ candidate_ids = {}
    /\ min_distance = inf
    /\ nearest_id = None
    /\ sink = <<>>
    /\ result = None
    /\ first_run = None

InitCross ==
    /\ SearchIdle
    /\ TreeIdle
    /\ roads_layer \in RoadLayers
    /\ binding \in {"raise", "origin"}
    /\ line_geom \in Lines
    /\ verdict = "None"

\* self.crosses_road(line_geom, road_index, road_features)
CallCrossesRoad ==
    /\ verdict = "None"
    /\ line_geom # None
    /\ verdict' = crosses_road(line_geom, roads_layer, binding)
    /\ UNCHANGED <<buildings_layer, roads_layer, search_radius, tie, binding,
                   canceled, pc, current, candidate_ids, min_distance,
                   nearest_id, sink, result, first_run, line_geom>>
    /\ UNCHANGED treevars

NextCross == CallCrossesRoad

SpecCross == InitCross /\ [][NextCross]_vars

-----------------------------------------------------------------------------
(* decision_tree.py                                                        *)

\* required_cols of process_gpkg
required_cols ==
    { "MotorwayBuffer", "StreetAngle", "PrimarySecondary", "Frontage",
      "ServiceBuffer", "Compactness", "Area", "Corners", "ERI" }

\* the columns classify_land_use subscripts the row with
ReadColumns ==
    { "Motorway", "Closest", "PrimarySecondary", "frontage_ratio", "Service",
      "Compactness", "Area", "Corners", "ERI" }

Labels == { "Residential", "Non Residential", "Mixed" }

\* Tables offered to process_gpkg: every required column plus any of the
\* other columns the tree reads, or all columns but one required one.
TableColumns ==
    { required_cols \cup x : x \in SUBSET (ReadColumns \ required_cols) }
    \cup { (required_cols \cup ReadColumns) \ {c} : c \in required_cols }

\* Cell values: a value on either side of every threshold the tree tests.
\* Ratios (frontage_ratio, Compactness, ERI) are in hundredths.
CellValue(c, choice, frontage) ==
    CASE c \in {"Motorway", "PrimarySecondary", "Service"} -> choice[c]
      [] c = "Closest"        -> IF choice[c] = 0 THEN 10 ELSE 30
      [] c = "frontage_ratio" -> frontage
      [] c = "Compactness"    -> IF choice[c] = 0 THEN 50 ELSE 70
      [] c = "Area"           -> IF choice[c] = 0 THEN 100 ELSE 300
      [] c = "Corners"        -> IF choice[c] = 0 THEN 4 ELSE 5
      [] c = "ERI"            -> IF choice[c] = 0 THEN 80 ELSE 95
      [] OTHER                -> 0

FrontageValues == { 10, 30, 60 }

Has(r, c) == c \in DOMAIN r

\* truth value of a boolean-or-0/1 cell
Truthy(v) == v # 0

\* row['Area'] > 200 or row['Corners'] > 4 or row['ERI'] < 0.9, each operand
\* read only when the ones before it are false
AreaCornersERI(r, yes, no) ==
    IF ~Has(r, "Area") THEN "KeyError"
    ELSE IF r["Area"] > 200 THEN yes
    ELSE IF ~Has(r, "Corners") THEN "KeyError"
    ELSE IF r["Corners"] > 4 THEN yes
    ELSE IF ~Has(r, "ERI") THEN "KeyError"
    ELSE IF r["ERI"] < 90 THEN yes
    ELSE no

\* row['Corners'] > 4 or row['ERI'] < 0.9
CornersERI(r, yes, no) ==
    IF ~Has(r, "Corners") THEN "KeyError"
    ELSE IF r["Corners"] > 4 THEN yes
    ELSE IF ~Has(r, "ERI") THEN "KeyError"
    ELSE IF r["ERI"] < 90 THEN yes
    ELSE no

\* classify_land_use(row): a label, or "KeyError" when the row lacks a
\* column the tree subscripts on the way
classify_land_use(r) ==
    IF ~Has(r, "Motorway") THEN "KeyError"
    ELSE IF Truthy(r["Motorway"]) THEN "Non Residential"               \* node A
    ELSE IF ~Has(r, "Closest") THEN "KeyError"
    ELSE IF r["Closest"] > 20 THEN "Residential"                       \* node C
    ELSE IF ~Has(r, "PrimarySecondary") THEN "KeyError"
    ELSE IF Truthy(r["PrimarySecondary"])                              \* node E
    THEN IF ~Has(r, "frontage_ratio") THEN "KeyError"
         ELSE IF r["frontage_ratio"] < 20 THEN "Non Residential"       \* node F
         ELSE "Mixed"
    ELSE IF ~Has(r, "frontage_ratio") THEN "KeyError"
    ELSE IF r["frontage_ratio"] < 20 THEN "Non Residential"            \* node I
    ELSE IF ~Has(r, "Service") THEN "KeyError"
    ELSE IF Truthy(r["Service"])                                       \* node K
    THEN IF r["frontage_ratio"] < 20 THEN "Non Residential"            \* node L
         ELSE "Mixed"
    ELSE IF ~Has(r, "Compactness") THEN "KeyError"
    ELSE IF r["Compactness"] < 62                                      \* node O
    THEN AreaCornersERI(r, "Non Residential", "Residential")           \* node P
    ELSE IF r["frontage_ratio"] > 50                                   \* node S
    THEN CornersERI(r, "Mixed", "Residential")                         \* node T
    ELSE AreaCornersERI(r, "Non Residential", "Residential")           \* node W

\* missing_cols = [col for col in required_cols if col not in gdf.columns]
missing_cols(cols) == required_cols \ cols

InitTree ==
    /\ SearchIdle
    /\ roads_layer = <<>>
    /\ binding = "raise"
    /\ CrossIdle
    /\ columns \in TableColumns
    /\ row = <<>>
    /\ prediction = "None"
    /\ tpc = "loaded"

searchvars == <<buildings_layer, roads_layer, search_radius, tie, binding,
                canceled, pc, current, candidate_ids, min_distance,
                nearest_id, sink, result, first_run>>

\* the required-column check of process_gpkg
Validate ==
    /\ tpc = "loaded"
    /\ tpc' = IF missing_cols(columns) # {} THEN "ValueError" ELSE "validated"
    /\ UNCHANGED <<columns, row, prediction>>
    /\ UNCHANGED searchvars
    /\ UNCHANGED crossvars

\* gdf.apply(classify_land_use, axis=1), for one row of the table
Apply ==
    /\ tpc = "validated"
    /\ \E choice \in [ReadColumns -> {0, 1}], frontage \in FrontageValues :
          LET r == [c \in columns |-> CellValue(c, choice, frontage)]
          IN  /\ row' = r
              /\ prediction' = classify_land_use(r)
    /\ tpc' = IF prediction' = "KeyError" THEN "KeyError" ELSE "classified"
    /\ UNCHANGED columns
    /\ UNCHANGED searchvars
    /\ UNCHANGED crossvars

\* summary and gdf.to_file
Save ==
    /\ tpc = "classified"
    /\ tpc' = "done"
    /\ UNCHANGED <<columns, row, prediction>>
    /\ UNCHANGED searchvars
    /\ UNCHANGED crossvars

NextTree ==
    \/ Validate
    \/ Apply
    \/ Save

SpecTree == InitTree /\ [][NextTree]_vars

-----------------------------------------------------------------------------
(* Properties                                                              *)

Emitted == 1..Len(sink)

Ids == 1..Len(buildings_layer)

Dist(i, c) == distanceSq(buildings_layer[i], buildings_layer[c])

InRadius(i, c) == c # i /\ ~Beyond(Dist(i, c), search_radius)

\* the candidates of i within the radius whose connecting line crosses_road
\* answers False for
Viable(i) == { c \in Ids : InRadius(i, c) /\ crosses(i, c) = "False" }

\* exhaustive scan: the least distance over the viable candidates
BruteForce(i) ==
    LET viable == Viable(i)
    IN  IF viable = {} THEN NoneFound ELSE SetMin({ Dist(i, c) : c \in viable })

\* the least distance over the candidates within the radius, roads ignored
NearestInRadius(i) ==
    LET near == { c \in Ids : InRadius(i, c) }
    IN  IF near = {} THEN NoneFound ELSE SetMin({ Dist(i, c) : c \in near })

Found(r) == r.nearest_id # NoneFound

\* C1: for every emitted result whose nearest_id is not -1, nearest_id names
\* a building of the layer, nearest_dist is the distance between the source
\* and that building, and crosses_road answers False for the shortest line
\* between the two.
C1_NearestIsReachable ==
    \A i \in Emitted :
        Found(sink[i]) =>
            /\ sink[i].nearest_id \in Ids
            /\ sink[i].nearest_dist = Dist(i, sink[i].nearest_id)
            /\ crosses(i, sink[i].nearest_id) = "False"

\* C1 witness: a neighbour was reported after crosses_road examined a road
\* on the line to it.
C1_Witness ==
    \E i \in Emitted :
        /\ Found(sink[i])
        /\ candidate_road_ids(
               create_shortest_line(buildings_layer[i],
                                    buildings_layer[sink[i].nearest_id], tie),
               roads_layer) # <<>>

\* a step that puts a result into the sink
Emits == sink' # sink /\ sink' # <<>>

\* the step leaves the results already in the sink as they are and adds one
AppendsOne ==
    /\ Len(sink') = Len(sink) + 1
    /\ \A k \in 1..Len(sink) : sink'[k] = sink[k]

\* The result of feature i is minimal: every other building within the
\* radius that is nearer than the reported distance (any building within
\* the radius when nothing is reported) has a line that crosses_road
\* answers True for, and the reported distance is the one an exhaustive
\* scan of all buildings finds.
Minimal(i) ==
    /\ \A c \in Ids :
          ( /\ InRadius(i, c)
            /\ (~Found(sink[i]) \/ Dist(i, c) < sink[i].nearest_dist) )
          => crosses(i, c) = "True"
    /\ sink[i].nearest_dist = BruteForce(i)

LastIsMinimal == Minimal(Len(sink))

\* C2: every step that emits a result adds, in whatever order the
\* candidates were visited, a result that is minimal (the nearer buildings
\* within the radius are all behind a road, and the distance is the one an
\* exhaustive scan of all buildings finds) and changes no earlier result.
C2_NearestIsMinimal == [][Emits => (AppendsOne /\ LastIsMinimal')]_vars

\* C2 witness: a farther building was reported because a nearer one within
\* the radius is behind a road.
C2_Witness ==
    \E i \in Emitted : \E c \in Ids :
        /\ Found(sink[i])
        /\ InRadius(i, c)
        /\ Dist(i, c) < sink[i].nearest_dist

\* C5: a run that ended and was not cancelled has emitted exactly one result
\* per source feature, the i-th result being that of the i-th feature.
C5_OneResultPerFeature ==
    (pc \in {"returned", "error"} /\ ~canceled) =>
        /\ Len(sink) = Len(buildings_layer)
        /\ \A i \in Emitted : sink[i].id = i

\* The emitted results belong to the first features, one each, in order,
\* with all four fields; nothing is in the sink for the feature in progress.
SinkIsPrefix ==
    /\ Len(sink) <= Len(buildings_layer)
    /\ pc \in {"loop", "scan", "returned", "error"} => Len(sink) = current
    /\ \A i \in Emitted :
          /\ DOMAIN sink[i] = {"id", "geometry", "nearest_id", "nearest_dist"}
          /\ sink[i].id = i
          /\ sink[i].geometry = buildings_layer[i]

\* the last result holds what the whole search of its feature yields
LastIsFinished ==
    /\ sink[Len(sink)].nearest_dist = BruteForce(Len(sink))
    /\ Found(sink[Len(sink)]) =>
          sink[Len(sink)].nearest_dist = Dist(Len(sink), sink[Len(sink)].nearest_id)

\* the loop was left by the break
Interrupted == pc = "returned" /\ Len(sink) < Len(buildings_layer)

\* C6 as stated: whenever the run is cancelled the emitted results are the
\* results of a prefix of the features, none for the feature in progress,
\* and the value returned by an interrupted run carries an "incomplete"
\* flag.
C6_IncompleteFlag ==
    /\ SinkIsPrefix
    /\ Interrupted => "incomplete" \in DOMAIN result

\* C6 as amended: at every moment, cancelled or not, the emitted results
\* are the results of a prefix of the features with all their fields and
\* none for the feature in progress; every step that emits, whether the
\* flag is set or not, adds the finished result of the next feature and
\* changes no earlier one; the value returned is {OUTPUT: dest_id} for an
\* interrupted run as for a finished one.
C6_CancelKeepsPrefix ==
    /\ [](SinkIsPrefix /\ (pc = "returned" => result = ReturnValue))
    /\ [][Emits => (AppendsOne /\ LastIsFinished')]_vars

\* C6 witness: a cancelled run returned after some but not all features.
C6_Witness ==
    /\ canceled
    /\ Interrupted
    /\ Len(sink) > 0
    /\ result = ReturnValue

\* C7: a feature with no viable candidate gets nearest_id = -1 and
\* nearest_dist = -1 and no error is raised while it is searched; in every
\* result nearest_id is -1 exactly when nearest_dist is -1.
C7_NoneFoundSentinel ==
    /\ \A i \in Emitted :
          /\ Viable(i) = {} =>
                (sink[i].nearest_id = NoneFound /\ sink[i].nearest_dist = NoneFound)
          /\ sink[i].nearest_id = NoneFound <=> sink[i].nearest_dist = NoneFound
    /\ pc = "error" => Viable(SourceId) # {}

\* C8: when a run with a radius at least as large follows a finished run on
\* the same layers and has ended without being cancelled, every feature
\* the first run reported a neighbour for has a neighbour in the second
\* run too, at a distance that is not larger.
C8_RadiusMonotone ==
    (first_run # None /\ pc \in {"returned", "error"} /\ ~canceled) =>
        \A i \in 1..Len(first_run[1].sink) :
            Found(first_run[1].sink[i]) =>
                /\ i \in Emitted
                /\ Found(sink[i])
                /\ sink[i].nearest_dist <= first_run[1].sink[i].nearest_dist

InvalidParameter ==
    \/ search_radius < 0
    \/ buildings_layer = <<>>
    \/ roads_layer = <<>>

\* C9 as stated: with a negative search radius or an empty buildings or
\* roads layer the run is refused: it never gets to the loop and emits
\* nothing.
C9_FailsFast ==
    InvalidParameter => (pc \in {"start", "rejected"} /\ sink = <<>>)

\* C9 as amended: a negative search radius is refused before any feature is
\* processed or emitted; an empty layer is not refused: without roads every
\* emitted result is the nearest other building within the radius, and
\* without buildings the run returns having emitted nothing.
C9_OnlyRadiusRejected ==
    /\ search_radius < 0 => (pc \in {"start", "rejected"} /\ sink = <<>>)
    /\ search_radius >= 0 => pc # "rejected"
    /\ roads_layer = <<>> =>
          /\ pc # "error"
          /\ \A i \in Emitted : sink[i].nearest_dist = NearestInRadius(i)
    /\ (buildings_layer = <<>> /\ pc = "returned") => sink = <<>>

\* C9 witness: a run without roads returned with a neighbour reported.
C9_Witness ==
    /\ roads_layer = <<>>
    /\ pc = "returned"
    /\ \E i \in Emitted : Found(sink[i])

-----------------------------------------------------------------------------
(* Properties of crosses_road on its own                                   *)

Called == verdict # "None"

\* the intersections of the line with the roads crosses_road looks at
Inters ==
    { intersection(line_geom, roads_layer[k]) :
        k \in { candidate_road_ids(line_geom, roads_layer)[j] :
                  j \in DOMAIN candidate_road_ids(line_geom, roads_layer) } }

\* a single point within the tolerance of an end of the line
TouchesEnd(inter) ==
    inter.shape = "Point" /\ is_endpoint(PointAt(line_geom, inter.t), line_geom)

\* a single point within the tolerance of neither end
InteriorPoint(inter) ==
    inter.shape = "Point" /\ ~is_endpoint(PointAt(line_geom, inter.t), line_geom)

\* C3: roads that meet the line in a single point within the tolerance of
\* one of its ends do not make the result True (with only such roads, or
\* roads that miss the line, the result is False); when some road meets the
\* line in a single point within the tolerance of neither end, crosses_road
\* returns True.
C3_PointRule ==
    Called =>
        /\ (\A inter \in Inters : inter.shape = "Empty" \/ TouchesEnd(inter))
               => verdict = "False"
        /\ (\E inter \in Inters : InteriorPoint(inter)) => verdict = "True"

\* C4: when some road's intersection with the line is neither empty, nor a
\* single point, nor stretches only (several points, or points and
\* stretches), crosses_road returns True.
C4_MixedIsCrossing ==
    Called =>
        ( (\E inter \in Inters : inter.shape \in {"MultiPoint", "Collection"})
              => verdict = "True" )

-----------------------------------------------------------------------------
(* Property of process_gpkg                                                *)

\* C10: once the required-column check has passed, classify_land_use finds
\* every column it reads and yields one of the three labels.
C10_ValidatedRowsClassify ==
    tpc \in {"classified", "KeyError", "done"} =>
        (tpc # "KeyError" /\ prediction \in Labels)

====
